---------------------------- MODULE Spec2Model ----------------------------
(***************************************************************************)
(* The recommendation subsystem of cutecards (cc-recommendations.js):      *)
(* the ProductCatalog cache (load / loadFromCache / saveToCache) and the   *)
(* RecommendationEngine (getRecommendations / scoreProduct / diversify /   *)
(* getFallbackRecommendations).                                            *)
(*                                                                         *)
(* JavaScript is single-threaded: a handler runs to its next await, so one *)
(* action is the code between two awaits of one call.                      *)
(***************************************************************************)
EXTENDS Integers, Sequences, FiniteSets, TLC

(***************************************************************************)
(* CONFIG                                                                  *)
(***************************************************************************)
CACHE_DURATION == 1800000

RAIL_SIZE == 6

max_per_interest == 2

max_per_style == 2

\* productService.js
MAX_CACHE_SIZE == 10

\* TAG_WEIGHTS with the weights of interest and occasion the other way round
occasionFirstWeights ==
  [interest |-> 4, occasion |-> 6, recipient |-> 4, style |-> 2, humour |-> 1]

\* CONFIG.TAG_WEIGHTS, in halves (humour: 0.5 is 1 half) so that scores stay
\* integers.
TAG_WEIGHTS ==
  [interest |-> 6, occasion |-> 4, recipient |-> 4, style |-> 2, humour |-> 1]

Categories == {"interest", "occasion", "recipient", "style", "humour"}

Modes == {"similar", "interest", "occasion"}

(***************************************************************************)
(* Bounds of the model                                                     *)
(***************************************************************************)
\* callers of load() that may overlap on one ProductCatalog
MaxCallers == 3

\* expiry windows the clock may run through
MaxPeriods == 1

\* products in the store's /products.json listing (engine specifications)
MaxCatalog == 4

\* products in the listing of the catalog specification
MaxListing == 1

\* products in the listing of the two-run specification
MaxPair == 2

\* products in a uniform listing
MaxHandles == 8

\* fetchProduct calls that may overlap
MaxClients == 2

\* handles of the store that fetchProduct is ever called with
MaxProducts == 12

\* show() calls on one modal
MaxShows == 3

\* products a show() call can be made for
MaxShown == 2

(***************************************************************************)
(* Strings.  A string is a sequence of tokens; a token is a piece of text  *)
(* without ':' or blanks, the separator ":" or a blank " ".  Two different *)
(* token sequences are two different strings.                              *)
(***************************************************************************)
\* String.prototype.toLowerCase, on one token
LowerToken(t) ==
  CASE t = "Interest" -> "interest"
    [] t = "Frogs"    -> "frogs"
    [] OTHER          -> t

\* toLowerCase that leaves capitals as they are
keepCase(s) == s

\* String.prototype.toLowerCase
toLowerCase(s) == [i \in 1..Len(s) |-> LowerToken(s[i])]

RECURSIVE trimStart(_)
trimStart(s) ==
  IF s # <<>> /\ Head(s) = " " THEN trimStart(Tail(s)) ELSE s

RECURSIVE trimEnd(_)
trimEnd(s) ==
  IF s # <<>> /\ s[Len(s)] = " " THEN trimEnd(SubSeq(s, 1, Len(s) - 1)) ELSE s

\* String.prototype.trim
trim(s) == trimEnd(trimStart(s))

\* String.prototype.split(':'): the parts between the separators
RECURSIVE split(_)
split(s) ==
  IF \A i \in 1..Len(s) : s[i] # ":"
    THEN <<s>>
    ELSE LET k == CHOOSE i \in 1..Len(s) :
                    s[i] = ":" /\ \A j \in 1..(i - 1) : s[j] # ":"
         IN  <<SubSeq(s, 1, k - 1)>> \o split(SubSeq(s, k + 1, Len(s)))

EmptyTags ==
  [interest |-> <<>>, occasion |-> <<>>, recipient |-> <<>>,
   style |-> <<>>, humour |-> <<>>]

\* the body of parseTags' forEach: one tag added to parsed
parseTag(parsed, tag) ==
  LET parts == split(trim(toLowerCase(tag)))
  IN  IF Len(parts) = 2 /\ Len(parts[1]) = 1 /\ parts[1][1] \in Categories
        THEN [parsed EXCEPT ![parts[1][1]] = Append(@, parts[2])]
        ELSE parsed

RECURSIVE parseTagsFrom(_, _)
parseTagsFrom(parsed, tags) ==
  IF tags = <<>> THEN parsed
  ELSE parseTagsFrom(parseTag(parsed, Head(tags)), Tail(tags))

\* parseTags(tags): tags is the array of the listing (always an array there)
parseTags(tags) == parseTagsFrom(EmptyTags, tags)

(***************************************************************************)
(* The store: what /products.json can answer                               *)
(***************************************************************************)
\* a product tagged as the tagging guide asks
Plain ==
  [tags |-> << <<"interest", ":", "frogs">>, <<"style", ":", "cute">> >>,
   available |-> TRUE]

\* the tags and stock of one product of the listing
Kinds ==
  { Plain,
    [tags |-> << <<" ", "Interest", ":", "Frogs">> >>,
     available |-> TRUE],
    [tags |-> << <<"interest", ":", "dogs">>, <<"occasion", ":", "birthday">>,
                 <<"colour", ":", "red">>, <<"sale">> >>,
     available |-> TRUE],
    [tags |-> << <<"interest", ":", "frogs">>, <<"occasion", ":", "birthday">> >>,
     available |-> FALSE] }

\* a listing of n products: handles are unique, product i has handle i
ListingsOf(n) ==
  { [i \in 1..n |-> [handle |-> i, tags |-> k[i].tags, available |-> k[i].available]] :
      k \in [1..n -> Kinds] }

ListingsUpTo(n) == UNION { ListingsOf(m) : m \in 0..n }

\* the listings of a store that sells up to n plain products
PlainListings(n) ==
  { [i \in 1..m |-> [handle |-> i, tags |-> Plain.tags, available |-> Plain.available]] :
      m \in 0..n }

\* data.products.map(p => ({...})): the fields the engine reads
toProduct(p) ==
  [handle |-> p.handle, tags |-> p.tags, parsedTags |-> parseTags(p.tags),
   available |-> p.available]

\* toProducts that stops one product short
toProductsPartial(listing) ==
  [i \in 1..(IF Len(listing) = 0 THEN 0 ELSE Len(listing) - 1) |-> toProduct(listing[i])]

\* this.products = data.products.map(...)
toProducts(listing) == [i \in 1..Len(listing) |-> toProduct(listing[i])]


\* the catalog of the tagging example: A (the anchor), B, C and D
ExampleListing ==
  << [handle |-> 1,
      tags |-> << <<"interest", ":", "frogs">>, <<"occasion", ":", "birthday">>,
                  <<"style", ":", "cute">> >>,
      available |-> TRUE],
     [handle |-> 2,
      tags |-> << <<"interest", ":", "frogs">>, <<"occasion", ":", "birthday">> >>,
      available |-> TRUE],
     [handle |-> 3,
      tags |-> << <<"interest", ":", "dogs">>, <<"occasion", ":", "birthday">> >>,
      available |-> TRUE],
     [handle |-> 4,
      tags |-> << <<"interest", ":", "frogs">>, <<"style", ":", "bold">> >>,
      available |-> TRUE] >>

\* a catalog whose products carry two values in a category, so that tag
\* sets overlap in part
MixedListing ==
  << [handle |-> 1,
      tags |-> << <<"interest", ":", "frogs">>, <<"interest", ":", "dogs">>,
                  <<"occasion", ":", "birthday">> >>,
      available |-> TRUE],
     [handle |-> 2,
      tags |-> << <<"interest", ":", "frogs">>, <<"occasion", ":", "birthday">>,
                  <<"occasion", ":", "xmas">> >>,
      available |-> TRUE],
     [handle |-> 3,
      tags |-> << <<"interest", ":", "dogs">>, <<"interest", ":", "cats">>,
                  <<"style", ":", "cute">> >>,
      available |-> TRUE] >>

\* a catalog in which an interest and a style reach the diversity limits
CappedListing ==
  << [handle |-> 1,
      tags |-> << <<"interest", ":", "frogs">>, <<"style", ":", "cute">> >>,
      available |-> TRUE],
     [handle |-> 2,
      tags |-> << <<"interest", ":", "frogs">>, <<"style", ":", "cute">> >>,
      available |-> TRUE],
     [handle |-> 3,
      tags |-> << <<"interest", ":", "frogs">>, <<"style", ":", "cute">> >>,
      available |-> TRUE],
     [handle |-> 4,
      tags |-> << <<"interest", ":", "frogs">>, <<"interest", ":", "dogs">>,
                  <<"style", ":", "cute">> >>,
      available |-> TRUE],
     [handle |-> 5,
      tags |-> << <<"style", ":", "cute">> >>,
      available |-> TRUE],
     [handle |-> 6,
      tags |-> << <<"interest", ":", "frogs">>, <<"style", ":", "cute">> >>,
      available |-> TRUE] >>

\* a catalog tagged carelessly: a value given twice (once in capitals behind
\* a blank), a category parseTags does not know, a tag without a colon and
\* one with two
RepeatListing ==
  << [handle |-> 1,
      tags |-> << <<"interest", ":", "frogs">>, <<" ", "Interest", ":", "Frogs">>,
                  <<"colour", ":", "red">>, <<"sale">>,
                  <<"occasion", ":", "birthday", ":", "30th">>,
                  <<"humour", ":", "dry">> >>,
      available |-> TRUE],
     [handle |-> 2,
      tags |-> << <<"interest", ":", "frogs">>, <<"humour", ":", "dry">>,
                  <<"recipient", ":", "dad">> >>,
      available |-> TRUE],
     [handle |-> 3,
      tags |-> << <<"interest", ":", "frogs">>, <<"interest", ":", "dogs">>,
                  <<"recipient", ":", "dad">>, <<"colour", ":", "red">> >>,
      available |-> TRUE] >>

ExtraListings == {ExampleListing, MixedListing, CappedListing, RepeatListing}

\* the uniform listings: MaxHandles products, all of one kind
BigListings ==
  { [i \in 1..MaxHandles |-> [handle |-> i, tags |-> k.tags, available |-> k.available]] :
      k \in Kinds }

\* Array.prototype.slice(0, n)
slice(s, n) == SubSeq(s, 1, IF n < Len(s) THEN n ELSE Len(s))

\* ProductCatalog.findByHandle: the index of the first match, 0 for undefined
findByHandle(prods, handle) ==
  IF \E i \in 1..Len(prods) : prods[i].handle = handle
    THEN CHOOSE i \in 1..Len(prods) :
           /\ prods[i].handle = handle
           /\ \A j \in 1..(i - 1) : prods[j].handle # handle
    ELSE 0

(***************************************************************************)
(* Scoring.  A score is an integer count of 1 / (2 * JaccardUnit): the     *)
(* weights are in halves and a Jaccard similarity is a multiple of         *)
(* 1 / JaccardUnit.                                                        *)
(***************************************************************************)
SetOf(arr) == { arr[i] : i \in 1..Len(arr) }

RECURSIVE Factorial(_)
Factorial(n) == IF n <= 1 THEN 1 ELSE n * Factorial(n - 1)

\* the most values one product of the store carries in one category
MaxValues ==
  LET sold == Kinds \cup UNION { { [tags |-> l[i].tags, available |-> l[i].available] :
                                      i \in 1..Len(l) } : l \in ExtraListings }
      lens == { Len(parseTags(k.tags)[cat]) : k \in sold, cat \in Categories }
  IN  CHOOSE n \in lens : \A m \in lens : m <= n

\* every size a union of two value sets can have divides JaccardUnit
JaccardUnit == Factorial(2 * MaxValues)

\* jaccardSimilarity that counts list entries instead of distinct values
jaccardOfLists(arr1, arr2) ==
  IF Len(arr1) = 0 \/ Len(arr2) = 0 THEN 0
  ELSE LET common == Cardinality({ i \in 1..Len(arr1) : arr1[i] \in SetOf(arr2) })
       IN  (common * JaccardUnit) \div (Len(arr1) + Len(arr2) - common)

\* jaccardSimilarity(arr1, arr2), in 1 / JaccardUnit
jaccardSimilarity(arr1, arr2) ==
  IF Len(arr1) = 0 \/ Len(arr2) = 0 THEN 0
  ELSE LET set1 == SetOf(arr1)
           set2 == SetOf(arr2)
       IN  (Cardinality(set1 \cap set2) * JaccardUnit) \div Cardinality(set1 \cup set2)

\* one "if (anchorTags.x.length && productTags.x.length) score += ..." of scoreProduct
scoreTerm(productTags, anchorTags, cat, weight) ==
  IF Len(anchorTags[cat]) # 0 /\ Len(productTags[cat]) # 0
    THEN jaccardSimilarity(productTags[cat], anchorTags[cat]) * weight
    ELSE 0

\* scoreProduct whose 'interest' and 'occasion' modes multiply by 2
scoreProductDoubled(productTags, anchorTags, mode) ==
  IF mode = "interest"
    THEN scoreTerm(productTags, anchorTags, "interest", TAG_WEIGHTS.interest * 2)
  ELSE IF mode = "occasion"
    THEN scoreTerm(productTags, anchorTags, "occasion", TAG_WEIGHTS.occasion * 2)
  ELSE scoreTerm(productTags, anchorTags, "interest", TAG_WEIGHTS.interest)
       + scoreTerm(productTags, anchorTags, "occasion", TAG_WEIGHTS.occasion)
       + scoreTerm(productTags, anchorTags, "recipient", TAG_WEIGHTS.recipient)
       + scoreTerm(productTags, anchorTags, "style", TAG_WEIGHTS.style)
       + scoreTerm(productTags, anchorTags, "humour", TAG_WEIGHTS.humour)

\* scoreProduct that matches every category in every mode
scoreProductEveryCategory(productTags, anchorTags, mode) ==
  (IF mode = "similar" THEN 1 ELSE 3)
    * (scoreTerm(productTags, anchorTags, "interest", TAG_WEIGHTS.interest)
       + scoreTerm(productTags, anchorTags, "occasion", TAG_WEIGHTS.occasion)
       + scoreTerm(productTags, anchorTags, "recipient", TAG_WEIGHTS.recipient)
       + scoreTerm(productTags, anchorTags, "style", TAG_WEIGHTS.style)
       + scoreTerm(productTags, anchorTags, "humour", TAG_WEIGHTS.humour))

\* scoreProduct(productTags, anchorTags, mode)
scoreProduct(productTags, anchorTags, mode) ==
  IF mode = "interest"
    THEN scoreTerm(productTags, anchorTags, "interest", TAG_WEIGHTS.interest * 3)
  ELSE IF mode = "occasion"
    THEN scoreTerm(productTags, anchorTags, "occasion", TAG_WEIGHTS.occasion * 3)
  ELSE scoreTerm(productTags, anchorTags, "interest", TAG_WEIGHTS.interest)
       + scoreTerm(productTags, anchorTags, "occasion", TAG_WEIGHTS.occasion)
       + scoreTerm(productTags, anchorTags, "recipient", TAG_WEIGHTS.recipient)
       + scoreTerm(productTags, anchorTags, "style", TAG_WEIGHTS.style)
       + scoreTerm(productTags, anchorTags, "humour", TAG_WEIGHTS.humour)

\* .filter(p => p.handle !== anchorHandle)
NotAnchor(p, anchorHandle) == p.handle # anchorHandle

\* IsAvailable with the stock not looked at
AnyStock(p) == TRUE

\* .filter(p => p.available)
IsAvailable(p) == p.available

\* HasMatch with the score not looked at
AnyScore(item) == TRUE

\* .filter(item => item.score > 0)
HasMatch(item) == item.score > 0

\* insertByScore that puts an item ahead of the items of its score
RECURSIVE insertBeforeTies(_, _)
insertBeforeTies(sorted, item) ==
  IF sorted = <<>> THEN <<item>>
  ELSE IF Head(sorted).score > item.score
    THEN <<Head(sorted)>> \o insertBeforeTies(Tail(sorted), item)
  ELSE <<item>> \o sorted

\* Array.prototype.sort((a, b) => b.score - a.score): stable, so an item goes
\* behind the items of its score
RECURSIVE insertByScore(_, _)
insertByScore(sorted, item) ==
  IF sorted = <<>> THEN <<item>>
  ELSE IF Head(sorted).score >= item.score
    THEN <<Head(sorted)>> \o insertByScore(Tail(sorted), item)
  ELSE <<item>> \o sorted

RECURSIVE sortByScore(_)
sortByScore(items) ==
  IF items = <<>> THEN <<>>
  ELSE insertByScore(sortByScore(SubSeq(items, 1, Len(items) - 1)), items[Len(items)])

\* the chain "const scored = this.catalog.products.filter ... .sort"
scoreAll(prods, anchorHandle, anchorTags, mode) ==
  LET candidates == SelectSeq(prods, LAMBDA p : NotAnchor(p, anchorHandle) /\ IsAvailable(p))
      items == [i \in 1..Len(candidates) |->
                  [product |-> candidates[i],
                   score |-> scoreProduct(candidates[i].parsedTags, anchorTags, mode)]]
  IN  sortByScore(SelectSeq(items, HasMatch))

(***************************************************************************)
(* diversify                                                               *)
(***************************************************************************)
\* counts[value] >= max, where a value not counted yet is undefined
AtLimit(counts, value, max) == value \in DOMAIN counts /\ counts[value] >= max

\* the loops "for (const x of xs) if (counts[x] >= max) { skip = true; break }"
skips(counts, values, max) == \E i \in 1..Len(values) : AtLimit(counts, values[i], max)

\* the loops "for (const x of xs) counts[x] = (counts[x] || 0) + 1"
RECURSIVE countAll(_, _)
countAll(counts, values) ==
  IF values = <<>> THEN counts
  ELSE LET v == Head(values)
       IN  countAll(IF v \in DOMAIN counts THEN [counts EXCEPT ![v] = @ + 1]
                    ELSE counts @@ (v :> 1),
                    Tail(values))

\* skipItem that skips on either limit
skipEither(skipInterest, skipStyle) == skipInterest \/ skipStyle

\* if (skipInterest && skipStyle) continue
skipItem(skipInterest, skipStyle) == skipInterest /\ skipStyle

RECURSIVE diversifyFrom(_, _, _, _)
diversifyFrom(items, interestCounts, styleCounts, accepted) ==
  IF items = <<>> THEN accepted
  ELSE LET item == Head(items)
           interests == item.product.parsedTags.interest
           styles == item.product.parsedTags.style
       IN  IF skipItem(skips(interestCounts, interests, max_per_interest),
                       skips(styleCounts, styles, max_per_style))
             THEN diversifyFrom(Tail(items), interestCounts, styleCounts, accepted)
             ELSE diversifyFrom(Tail(items), countAll(interestCounts, interests),
                                countAll(styleCounts, styles), Append(accepted, item))

\* diversify(scoredProducts)
diversify(scoredProducts) == diversifyFrom(scoredProducts, <<>>, <<>>, <<>>)

\* "const recommended = diversified.slice(0, RAIL_SIZE).map(item => item.product.handle)"
topHandles(diversified) ==
  LET top == slice(diversified, RAIL_SIZE)
  IN  [i \in 1..Len(top) |-> top[i].product.handle]

(***************************************************************************)
(* The bestseller query                                                    *)
(***************************************************************************)
\* what /products.json?limit=..&sort_by=best-selling can answer for a store
\* whose listing is the given one: the store sells the listing's products
\* and one more that the listing does not show; the answer is its first k
\* products by rising or by falling handle, the first of them sold out or
\* not.  Handles are unique in an answer; it need not respect the limit, nor
\* agree with the stock an older snapshot of the catalog shows.
BestListings(listing) ==
  LET n == Len(listing) + 1
  IN  { [i \in 1..k |-> [handle |-> IF rising THEN i ELSE n + 1 - i,
                         available |-> ~(soldOut /\ i = 1)]] :
          k \in 0..n, rising \in BOOLEAN, soldOut \in BOOLEAN }

\* a response to the query: not ok stands for a rejected fetch, a non-2xx
\* status or a body that does not parse
NoResponse == [ok |-> FALSE, products |-> <<>>]

BestResponses(listing) ==
  {NoResponse} \cup { [ok |-> TRUE, products |-> l] : l \in BestListings(listing) }

\* getFallbackRecommendations without its .slice(0, limit)
getFallbackUnsliced(response, limit) ==
  IF ~response.ok THEN <<>>
  ELSE LET inStock == SelectSeq(response.products, LAMBDA p : p.available)
       IN  [i \in 1..Len(inStock) |-> inStock[i].handle]

\* getFallbackRecommendations without its .filter(p => p.available)
getFallbackAnyStock(response, limit) ==
  IF ~response.ok THEN <<>>
  ELSE slice([i \in 1..Len(response.products) |-> response.products[i].handle], limit)

\* getFallbackRecommendations(limit), given the response its fetch gets
getFallbackRecommendations(response, limit) ==
  IF ~response.ok THEN <<>>
  ELSE LET inStock == SelectSeq(response.products, IsAvailable)
       IN  slice([i \in 1..Len(inStock) |-> inStock[i].handle], limit)

\* pushFill that keeps the bestsellers alone
fillOnly(recommendedNow, fill) == fill

\* pushFill without the filter
pushUnfiltered(recommendedNow, fill) == recommendedNow \o fill

\* pushFill that puts the bestsellers first
unshiftFill(recommendedNow, fill) ==
  SelectSeq(fill, LAMBDA h : h \notin SetOf(recommendedNow)) \o recommendedNow

\* "recommended.push(...bestsellers.filter(h => !recommended.includes(h)))"
pushFill(recommendedNow, fill) ==
  recommendedNow \o SelectSeq(fill, LAMBDA h : h \notin SetOf(recommendedNow))

\* fillCount that asks for a whole rail
fillCountWhole(recommendedNow) == RAIL_SIZE

\* "const fillCount = CONFIG.RAIL_SIZE - recommended.length"
fillCount(recommendedNow) == RAIL_SIZE - Len(recommendedNow)

\* "return recommended.slice(0, CONFIG.RAIL_SIZE)"
finalSlice(recommendedNow) == slice(recommendedNow, RAIL_SIZE)

(***************************************************************************)
(* State                                                                   *)
(***************************************************************************)
VARIABLES
  products,     \* ProductCatalog.products
  loading,      \* ProductCatalog.loading
  loaded,       \* ProductCatalog.loaded
  storage,      \* sessionStorage[CONFIG.CACHE_KEY]
  storageFull,  \* whether sessionStorage.setItem throws (quota)
  now,          \* Date.now()
  server,       \* the listing /products.json answers with at this moment
  pc,           \* where each caller's call stands
  args,         \* what each caller calls: load(), or getRecommendations(anchorHandle, mode)
  ret,          \* what load() resolved to, per caller
  capturedAt,   \* history: the capture time of the snapshot in products
  served,       \* history: how the latest load() call was answered, and the
                \* age of the snapshot or entry it looked at
  recommended,  \* getRecommendations' local: the scored handles, per caller
  bestsellers,  \* history: the response a caller's bestseller query got
  snapshot,     \* history: catalog.products as getRecommendations read it, per caller
  result,       \* what getRecommendations resolved to, per caller
  productCache, \* productService's Map: its keys (handles) in insertion order
  calls,        \* where each fetchProduct call stands, and its handle
  cachedUpTo,   \* history: the highest handle productCache has ever held
  recency,      \* history: the cached handles by their last use, oldest first
  asked,        \* history: the limit of a caller's bestseller query (0: none made)
  modal,        \* CCChoiceModal: productData, variantSkuMap, body, error
  shows,        \* where each show() call stands, and its handle
  latest        \* history: the handle of the most recent show() call

vars ==
  <<products, loading, loaded, storage, storageFull, now, server, pc, args, ret, capturedAt,
    served, recommended, bestsellers, snapshot, result, productCache, calls,
    cachedUpTo, recency, asked, modal, shows, latest>>

catalogVars == <<products, loading, loaded, storage, storageFull, capturedAt>>

engineVars == <<recommended, bestsellers, snapshot, result, asked>>

modalVars == <<modal, shows, latest>>

serviceVars == <<productCache, calls, cachedUpTo, recency>>

\* the clock's readings: 0 and the instants around each expiry
TimePoints ==
  {0} \cup { k * CACHE_DURATION + d : k \in 1..MaxPeriods, d \in {-1, 0, 1} }

(***************************************************************************)
(* sessionStorage and JSON                                                 *)
(***************************************************************************)
Absent == [text |-> "absent", timestamp |-> 0, products |-> <<>>]

\* an entry JSON.parse throws on
Garbage == [text |-> "garbage", timestamp |-> 0, products |-> <<>>]

\* JSON.stringify({timestamp, products})
JSONstringify(data) ==
  [text |-> "json", timestamp |-> data.timestamp, products |-> data.products]

\* JSONparse that throws on every text
JSONparseThrows(item) == [ok |-> FALSE, timestamp |-> 0, products |-> <<>>]

\* JSON.parse: ok is FALSE where it throws
JSONparse(item) ==
  IF item.text = "json"
    THEN [ok |-> TRUE, timestamp |-> item.timestamp, products |-> item.products]
    ELSE [ok |-> FALSE, timestamp |-> 0, products |-> <<>>]

\* IsExpired with the boundary on the other side
IsExpiredAtDuration(age) == age >= CACHE_DURATION

\* loadFromCache's test: if (age > CONFIG.CACHE_DURATION)
IsExpired(age) == age > CACHE_DURATION

\* loadFromCache(): hit says whether products were returned (null otherwise),
\* store is sessionStorage's entry afterwards, seen whether an entry was parsed
loadFromCache(item, t) ==
  IF item.text = "absent"
    THEN [hit |-> FALSE, seen |-> FALSE, products |-> <<>>, store |-> item]
  ELSE LET data == JSONparse(item)
       IN  IF ~data.ok
             THEN [hit |-> FALSE, seen |-> FALSE, products |-> <<>>, store |-> item]
           ELSE IF IsExpired(t - data.timestamp)
             THEN [hit |-> FALSE, seen |-> TRUE, products |-> <<>>, store |-> Absent]
           ELSE [hit |-> TRUE, seen |-> TRUE, products |-> data.products, store |-> item]

\* saveToCache that stores nothing
saveNothing(item, prods, t, full) == item

\* saveToCache(products): the entry afterwards; a setItem that throws is
\* caught and leaves the entry as it was
saveToCache(item, prods, t, full) ==
  IF full THEN item ELSE JSONstringify([timestamp |-> t, products |-> prods])

(***************************************************************************)
(* ProductCatalog.load()                                                   *)
(***************************************************************************)
\* IsLoaded with the test of this.loaded left out
NeverLoaded == FALSE

\* if (this.loaded) return this.products
IsLoaded == loaded

\* MustWait with the test of this.loading left out
NeverWait == FALSE

\* if (this.loading): wait for the load in flight
MustWait == loading

NoAge == 0 - 1

\* load() on a loaded catalog
LoadReady(c) ==
  /\ pc[c] = "idle"
  /\ IsLoaded
  /\ pc' = [pc EXCEPT ![c] = "returned"]
  /\ ret' = [ret EXCEPT ![c] = products]
  /\ served' = [how |-> "memory", age |-> now - capturedAt]
  /\ UNCHANGED <<catalogVars, now, server, args, engineVars, serviceVars, modalVars>>

\* load() while another load is in flight: the setInterval poll starts
LoadWait(c) ==
  /\ pc[c] = "idle"
  /\ ~IsLoaded
  /\ MustWait
  /\ pc' = [pc EXCEPT ![c] = "poll"]
  /\ served' = [how |-> "wait", age |-> NoAge]
  /\ UNCHANGED <<catalogVars, now, server, args, ret, engineVars, serviceVars, modalVars>>

\* load() that finds a usable entry in sessionStorage
LoadCached(c) ==
  /\ pc[c] = "idle"
  /\ ~IsLoaded
  /\ ~MustWait
  /\ LET cached == loadFromCache(storage, now)
     IN  /\ cached.hit
         /\ products' = cached.products
         /\ storage' = cached.store
         /\ capturedAt' = JSONparse(storage).timestamp
         /\ ret' = [ret EXCEPT ![c] = cached.products]
         /\ served' = [how |-> "cache", age |-> now - JSONparse(storage).timestamp]
  /\ loaded' = TRUE
  /\ loading' = FALSE
  /\ pc' = [pc EXCEPT ![c] = "returned"]
  /\ UNCHANGED <<storageFull, now, server, args, engineVars, serviceVars, modalVars>>

\* load() that finds none: fetch('/products.json?limit=250') is issued
LoadFetch(c) ==
  /\ pc[c] = "idle"
  /\ ~IsLoaded
  /\ ~MustWait
  /\ LET cached == loadFromCache(storage, now)
     IN  /\ ~cached.hit
         /\ storage' = cached.store
         /\ served' = [how |-> "network",
                       age |-> IF cached.seen THEN now - JSONparse(storage).timestamp
                               ELSE NoAge]
  /\ loading' = TRUE
  /\ pc' = [pc EXCEPT ![c] = "fetch"]
  /\ UNCHANGED <<products, loaded, storageFull, capturedAt, now, server, args, ret,
                 engineVars, serviceVars, modalVars>>

\* the fetch resolves with an ok response: response.json() is awaited
FetchOk(c) ==
  /\ pc[c] = "fetch"
  /\ pc' = [pc EXCEPT ![c] = "json"]
  /\ UNCHANGED <<catalogVars, now, server, args, ret, served, engineVars, serviceVars, modalVars>>

\* the body arrives: map, saveToCache, loaded
JsonOk(c) ==
  /\ pc[c] = "json"
  /\ products' = toProducts(server)
  /\ storage' = saveToCache(storage, toProducts(server), now, storageFull)
  /\ capturedAt' = now
  /\ loaded' = TRUE
  /\ loading' = FALSE
  /\ ret' = [ret EXCEPT ![c] = toProducts(server)]
  /\ pc' = [pc EXCEPT ![c] = "returned"]
  /\ UNCHANGED <<storageFull, now, server, args, served, engineVars, serviceVars, modalVars>>

\* loadingAfterCatch with the flag left set
loadingLeftSet == TRUE

\* the catch block's "this.loading = false"
loadingAfterCatch == FALSE

\* the catch block: the fetch rejects, the response is not ok, or the body
\* does not parse
LoadFail(c) ==
  /\ pc[c] \in {"fetch", "json"}
  /\ loading' = loadingAfterCatch
  /\ ret' = [ret EXCEPT ![c] = <<>>]
  /\ pc' = [pc EXCEPT ![c] = "returned"]
  /\ UNCHANGED <<products, loaded, storage, storageFull, capturedAt, now, server,
                 args, served, engineVars, serviceVars, modalVars>>

\* a tick of the waiting caller's setInterval that finds this.loaded (a tick
\* that does not changes nothing)
Poll(c) ==
  /\ pc[c] = "poll"
  /\ loaded
  /\ ret' = [ret EXCEPT ![c] = products]
  /\ pc' = [pc EXCEPT ![c] = "returned"]
  /\ UNCHANGED <<catalogVars, now, server, args, served, engineVars, serviceVars, modalVars>>

\* the caller of load() takes the result; it may call again
Return(c) ==
  /\ pc[c] = "returned"
  /\ args[c].op = "load"
  /\ pc' = [pc EXCEPT ![c] = "idle"]
  /\ ret' = [ret EXCEPT ![c] = <<>>]
  /\ UNCHANGED <<catalogVars, now, server, args, served, engineVars, serviceVars, modalVars>>

(***************************************************************************)
(* The environment                                                         *)
(***************************************************************************)
\* time passes
Advance ==
  /\ \E t \in TimePoints : t > now /\ now' = t
  /\ UNCHANGED <<catalogVars, server, pc, args, ret, served, engineVars, serviceVars, modalVars>>

\* the store's listing changes
ServerUpdate ==
  /\ \E l \in PlainListings(MaxListing) : l # server /\ server' = l
  /\ UNCHANGED <<catalogVars, now, pc, args, ret, served, engineVars, serviceVars, modalVars>>

(***************************************************************************)
(* The catalog specification: callers of load() on one ProductCatalog, on  *)
(* a page of a session that may have left an entry in sessionStorage       *)
(***************************************************************************)
LoadCall == [op |-> "load", anchorHandle |-> 0, mode |-> "similar"]

NoServed == [how |-> "none", age |-> NoAge]

\* no product fetched into the modal
NoProduct == 0

\* this.variantSkuMap = null
NullMap == [loaded |-> FALSE, of |-> NoProduct]

\* the {} loadVariantSkus falls back to
EmptyMap == [loaded |-> TRUE, of |-> NoProduct]

\* the SKU map fetchVariantMetafields(handle) resolves to
SkuMapOf(handle) == [loaded |-> TRUE, of |-> handle]

\* the modal as its constructor leaves it, never shown
ModalIdle ==
  /\ modal = [productData |-> NoProduct, variantSkuMap |-> NullMap,
              body |-> [view |-> "empty", handle |-> NoProduct], error |-> FALSE]
  /\ shows = [s \in 1..MaxShows |-> [at |-> "idle", handle |-> NoProduct]]
  /\ latest = NoProduct

\* productService as its module leaves it: an empty Map, no call made
ServiceIdle ==
  /\ productCache = <<>>
  /\ calls = [k \in 1..MaxClients |-> [at |-> "idle", handle |-> 0]]
  /\ cachedUpTo = 0
  /\ recency = <<>>

\* the state the constructor leaves, for n callers
Constructed(n) ==
  /\ products = <<>>
  /\ loading = FALSE
  /\ loaded = FALSE
  /\ capturedAt = 0
  /\ now = 0
  /\ pc = [c \in 1..n |-> "idle"]
  /\ ret = [c \in 1..n |-> <<>>]
  /\ served = NoServed
  /\ recommended = [c \in 1..n |-> <<>>]
  /\ bestsellers = [c \in 1..n |-> NoResponse]
  /\ snapshot = [c \in 1..n |-> <<>>]
  /\ result = [c \in 1..n |-> <<>>]
  /\ asked = [c \in 1..n |-> 0]

Init ==
  /\ Constructed(MaxCallers)
  /\ ServiceIdle
  /\ ModalIdle
  /\ args = [c \in 1..MaxCallers |-> LoadCall]
  /\ storageFull \in BOOLEAN
  /\ server \in PlainListings(MaxListing)
  /\ storage \in {Absent, Garbage}
                 \cup { JSONstringify([timestamp |-> 0, products |-> toProducts(l)]) :
                          l \in PlainListings(MaxListing) }

Next ==
  \/ \E c \in 1..MaxCallers :
       \/ LoadReady(c)
       \/ LoadWait(c)
       \/ LoadCached(c)
       \/ LoadFetch(c)
       \/ FetchOk(c)
       \/ JsonOk(c)
       \/ LoadFail(c)
       \/ Poll(c)
       \/ Return(c)
  \/ Advance
  \/ ServerUpdate

Spec == Init /\ [][Next]_vars

\* The event loop runs what is due: a fetch settles (the browser ends it
\* with a response or an error) and an interval's tick that finds
\* this.loaded is run.  Nothing obliges anyone to call load() again.
Settles == \E c \in 1..MaxCallers : FetchOk(c) \/ JsonOk(c) \/ LoadFail(c)

Ticks == \E c \in 1..MaxCallers : Poll(c)

FairSpec == Init /\ [][Next]_vars /\ WF_vars(Settles) /\ WF_vars(Ticks)


(***************************************************************************)
(* RecommendationEngine.getRecommendations(anchorHandle, mode).  Its first *)
(* step is "await this.catalog.load()": the load actions above, taken by a *)
(* caller whose args.op is "recs".                                         *)
(***************************************************************************)
\* the scored and diversified handles of "recommended" before any fill
scoredHandles(prods, anchorHandle, mode) ==
  LET anchorProduct == prods[findByHandle(prods, anchorHandle)]
  IN  topHandles(diversify(scoreAll(prods, anchorHandle, anchorProduct.parsedTags, mode)))

\* after the load: the anchor is not in the catalog, the bestseller query is
\* issued with the default limit
ScoreMissing(c) ==
  /\ pc[c] = "returned"
  /\ args[c].op = "recs"
  /\ findByHandle(products, args[c].anchorHandle) = 0
  /\ snapshot' = [snapshot EXCEPT ![c] = products]
  /\ asked' = [asked EXCEPT ![c] = RAIL_SIZE]
  /\ pc' = [pc EXCEPT ![c] = "fallback"]
  /\ UNCHANGED <<catalogVars, now, server, args, ret, served, recommended,
                 bestsellers, result, serviceVars, modalVars>>

\* after the load: fewer than RAIL_SIZE scored handles, the bestseller query
\* is issued with limit fillCount
ScoreShort(c) ==
  /\ pc[c] = "returned"
  /\ args[c].op = "recs"
  /\ findByHandle(products, args[c].anchorHandle) # 0
  /\ LET handles == scoredHandles(products, args[c].anchorHandle, args[c].mode)
     IN  /\ Len(handles) < RAIL_SIZE
         /\ recommended' = [recommended EXCEPT ![c] = handles]
         /\ asked' = [asked EXCEPT ![c] = fillCount(handles)]
  /\ snapshot' = [snapshot EXCEPT ![c] = products]
  /\ pc' = [pc EXCEPT ![c] = "backfill"]
  /\ UNCHANGED <<catalogVars, now, server, args, ret, served, bestsellers, result, serviceVars, modalVars>>

\* after the load: RAIL_SIZE scored handles, returned as they are
ScoreFull(c) ==
  /\ pc[c] = "returned"
  /\ args[c].op = "recs"
  /\ findByHandle(products, args[c].anchorHandle) # 0
  /\ LET handles == scoredHandles(products, args[c].anchorHandle, args[c].mode)
     IN  /\ Len(handles) >= RAIL_SIZE
         /\ recommended' = [recommended EXCEPT ![c] = handles]
         /\ result' = [result EXCEPT ![c] = finalSlice(handles)]
  /\ snapshot' = [snapshot EXCEPT ![c] = products]
  /\ pc' = [pc EXCEPT ![c] = "done"]
  /\ UNCHANGED <<catalogVars, now, server, args, ret, served, bestsellers, asked,
                 serviceVars, modalVars>>

\* "return this.getFallbackRecommendations()" settles
FallbackSettle(c) ==
  /\ pc[c] = "fallback"
  /\ \E response \in BestResponses(server) :
       /\ bestsellers' = [bestsellers EXCEPT ![c] = response]
       /\ result' = [result EXCEPT ![c] = getFallbackRecommendations(response, RAIL_SIZE)]
  /\ pc' = [pc EXCEPT ![c] = "done"]
  /\ UNCHANGED <<catalogVars, now, server, args, ret, served, recommended, snapshot, asked,
                 serviceVars, modalVars>>

\* "await this.getFallbackRecommendations(fillCount)" settles; recommended
\* keeps the scored handles, result is the list after the push
BackfillSettle(c) ==
  /\ pc[c] = "backfill"
  /\ \E response \in BestResponses(server) :
       LET fill == getFallbackRecommendations(response, asked[c])
       IN  /\ bestsellers' = [bestsellers EXCEPT ![c] = response]
           /\ result' = [result EXCEPT ![c] = finalSlice(pushFill(recommended[c], fill))]
  /\ pc' = [pc EXCEPT ![c] = "done"]
  /\ UNCHANGED <<catalogVars, now, server, args, ret, served, recommended, snapshot, asked,
                 serviceVars, modalVars>>

(***************************************************************************)
(* The engine specification: one getRecommendations call on a page, fresh  *)
(* or of a session that has stored the catalog                             *)
(***************************************************************************)
RecsCalls(n) ==
  [op : {"recs"}, anchorHandle : 1..(n + 1), mode : Modes]

RecInit ==
  /\ Constructed(1)
  /\ ServiceIdle
  /\ ModalIdle
  /\ args \in [{1} -> RecsCalls(MaxCatalog)
                       \cup [op : {"recs"}, anchorHandle : {MaxHandles + 1}, mode : Modes]]
  /\ server \in ListingsUpTo(MaxCatalog) \cup BigListings \cup ExtraListings
  /\ storage \in {Absent}
                 \cup { JSONstringify([timestamp |-> 0, products |-> toProducts(l)]) :
                          l \in {server} \cap ExtraListings }
  /\ storageFull = FALSE

RecNext ==
  \E c \in {1} :
    \/ LoadCached(c)
    \/ LoadFetch(c)
    \/ FetchOk(c)
    \/ JsonOk(c)
    \/ LoadFail(c)
    \/ ScoreMissing(c)
    \/ ScoreShort(c)
    \/ ScoreFull(c)
    \/ FallbackSettle(c)
    \/ BackfillSettle(c)

RecSpec == RecInit /\ [][RecNext]_vars

(***************************************************************************)
(* The two-run specification: two getRecommendations calls with the same   *)
(* arguments on one catalog                                                *)
(***************************************************************************)
PairInit ==
  /\ Constructed(2)
  /\ ServiceIdle
  /\ ModalIdle
  /\ \E call \in RecsCalls(MaxPair) : args = [c \in {1, 2} |-> call]
  /\ server \in ListingsUpTo(MaxPair)
  /\ storage = Absent
  /\ storageFull = FALSE

PairNext ==
  \E c \in {1, 2} :
    \/ LoadReady(c)
    \/ LoadWait(c)
    \/ LoadFetch(c)
    \/ FetchOk(c)
    \/ JsonOk(c)
    \/ LoadFail(c)
    \/ Poll(c)
    \/ ScoreMissing(c)
    \/ ScoreShort(c)
    \/ FallbackSettle(c)
    \/ BackfillSettle(c)

PairSpec == PairInit /\ [][PairNext]_vars


(***************************************************************************)
(* productService.js: fetchProduct(handle) and its module-level Map.  A    *)
(* Map keeps its keys in insertion order; the model keeps the keys.        *)
(***************************************************************************)
\* Map.prototype.has
mapHas(cache, key) == \E i \in 1..Len(cache) : cache[i] = key

\* Map.prototype.delete
mapDelete(cache, key) == SelectSeq(cache, LAMBDA k : k # key)

\* Map.prototype.set: a new key goes to the end, a key the Map holds keeps
\* its place
mapSet(cache, key) == IF mapHas(cache, key) THEN cache ELSE Append(cache, key)

\* productCache.keys().next().value
firstKey(cache) == Head(cache)

\* the hit: "productCache.delete(handle); productCache.set(handle, product)"
moveToEnd(cache, handle) == mapSet(mapDelete(cache, handle), handle)

\* IsFull with the test one entry late
IsOverFull(cache) == Len(cache) > MAX_CACHE_SIZE

\* if (productCache.size >= MAX_CACHE_SIZE)
IsFull(cache) == Len(cache) >= MAX_CACHE_SIZE

\* "Cache product (LRU eviction if full)": the eviction and the set
cacheProduct(cache, handle) ==
  mapSet(IF IsFull(cache) THEN mapDelete(cache, firstKey(cache)) ELSE cache, handle)

\* history: the handle becomes the most recently used of the cached ones
used(order, handle, cache) ==
  SelectSeq(SelectSeq(order, LAMBDA k : k # handle) \o <<handle>>,
            LAMBDA k : mapHas(cache, k))

\* the products a page asks for again and again
Favourites == {1, 2}

\* the handles a call is made with: a favourite, or the next one the cache
\* has never held; only a favourite is asked for while a call for it is out
Requestable ==
  { h \in 1..MaxProducts :
      \/ h \in Favourites
      \/ h = cachedUpTo + 1 /\ \A k \in 1..MaxClients : calls[k].handle # h }

\* fetchProduct(handle) that finds the handle cached: returns at once
FetchHit(k) ==
  /\ calls[k].at = "idle"
  /\ \E handle \in Requestable :
       /\ mapHas(productCache, handle)
       /\ productCache' = moveToEnd(productCache, handle)
       /\ recency' = used(recency, handle, productCache')
  /\ UNCHANGED <<calls, cachedUpTo, catalogVars, now, server, pc, args, ret, served, engineVars, modalVars>>

\* fetchProduct(handle) that does not: fetch(`/products/${handle}.js`) is issued
FetchMiss(k) ==
  /\ calls[k].at = "idle"
  /\ \E handle \in Requestable :
       /\ ~mapHas(productCache, handle)
       /\ calls' = [calls EXCEPT ![k] = [at |-> "fetch", handle |-> handle]]
  /\ UNCHANGED <<productCache, cachedUpTo, recency, catalogVars, now, server, pc, args, ret, served,
                 engineVars, modalVars>>

\* the fetch resolves with an ok response: response.json() is awaited
FetchResponse(k) ==
  /\ calls[k].at = "fetch"
  /\ calls' = [calls EXCEPT ![k].at = "json"]
  /\ UNCHANGED <<productCache, cachedUpTo, recency, catalogVars, now, server, pc, args, ret,
                 served, engineVars, modalVars>>

\* the body arrives: the product is cached and returned
FetchStore(k) ==
  /\ calls[k].at = "json"
  /\ productCache' = cacheProduct(productCache, calls[k].handle)
  /\ recency' = used(recency, calls[k].handle, productCache')
  /\ cachedUpTo' = IF calls[k].handle > cachedUpTo THEN calls[k].handle ELSE cachedUpTo
  /\ calls' = [calls EXCEPT ![k] = [at |-> "idle", handle |-> 0]]
  /\ UNCHANGED <<catalogVars, now, server, pc, args, ret, served, engineVars, modalVars>>

\* the fetch rejects, the response is not ok ("Product not found") or the
\* body does not parse: fetchProduct throws, the cache is not touched
FetchThrow(k) ==
  /\ calls[k].at \in {"fetch", "json"}
  /\ calls' = [calls EXCEPT ![k] = [at |-> "idle", handle |-> 0]]
  /\ UNCHANGED <<productCache, cachedUpTo, recency, catalogVars, now, server, pc, args, ret,
                 served, engineVars, modalVars>>

(***************************************************************************)
(* The product service specification: overlapping fetchProduct calls on a  *)
(* page whose earlier calls, one after the other, have cached some         *)
(* products                                                                *)
(***************************************************************************)
ServiceInit ==
  /\ Constructed(1)
  /\ ModalIdle
  /\ args = [c \in {1} |-> LoadCall]
  /\ server = <<>>
  /\ storage = Absent
  /\ storageFull = FALSE
  /\ \E n \in 0..MAX_CACHE_SIZE :
       /\ productCache = [i \in 1..n |-> i]
       /\ recency = [i \in 1..n |-> i]
       /\ cachedUpTo = n
  /\ calls = [k \in 1..MaxClients |-> [at |-> "idle", handle |-> 0]]

ServiceNext ==
  \E k \in 1..MaxClients :
    \/ FetchHit(k)
    \/ FetchMiss(k)
    \/ FetchResponse(k)
    \/ FetchStore(k)
    \/ FetchThrow(k)

ServiceSpec == ServiceInit /\ [][ServiceNext]_vars

(***************************************************************************)
(* CCChoiceModal.show(): each await is a point where another show() call,  *)
(* made from a click, can run.  fetchProduct(handle) resolves to the       *)
(* product of the handle (named here by the handle) or throws.             *)
(***************************************************************************)
\* renderLoadingView()
LoadingView == [view |-> "loading", handle |-> NoProduct]

\* renderChoiceView({product, ...}): the choice view of the product
ChoiceView(product) == [view |-> "choice", handle |-> product]

\* buildChoiceView(): renders this.productData as it is now
buildChoiceView(productData) == ChoiceView(productData)

\* show({handle}) up to "await fetchProduct(handle)"
ShowCall(s) ==
  \E handle \in 1..MaxShown :
    /\ shows[s].at = "idle"
    /\ \A r \in 1..(s - 1) : shows[r].at # "idle"
    /\ modal' = [modal EXCEPT !.error = FALSE, !.body = LoadingView]
    /\ shows' = [shows EXCEPT ![s] = [at |-> "product", handle |-> handle]]
    /\ latest' = handle
    /\ UNCHANGED <<catalogVars, now, server, pc, args, ret, served, engineVars, serviceVars>>

\* fetchProduct resolves: this.productData is set, loadVariantSkus runs up
\* to "await fetchVariantMetafields(this.productData.handle)"
ShowProduct(s) ==
  /\ shows[s].at = "product"
  /\ modal' = [modal EXCEPT !.productData = shows[s].handle]
  /\ shows' = [shows EXCEPT ![s].at = "skus"]
  /\ UNCHANGED <<catalogVars, now, server, pc, args, ret, served, engineVars, serviceVars,
                 latest>>

\* loadVariantSkus resolves, with the map of the call's product or with {}
\* (no map, or the fetch failed and was caught); buildChoiceView runs
ShowSkus(s) ==
  \E found \in BOOLEAN :
    /\ shows[s].at = "skus"
    /\ modal' = [modal EXCEPT
                   !.variantSkuMap = IF found THEN SkuMapOf(shows[s].handle) ELSE EmptyMap,
                   !.body = buildChoiceView(modal.productData)]
    /\ shows' = [shows EXCEPT ![s].at = "done"]
    /\ UNCHANGED <<catalogVars, now, server, pc, args, ret, served, engineVars, serviceVars,
                   latest>>

\* fetchProduct throws: the catch block shows the error
ShowCatch(s) ==
  /\ shows[s].at = "product"
  /\ modal' = [modal EXCEPT !.error = TRUE]
  /\ shows' = [shows EXCEPT ![s].at = "failed"]
  /\ UNCHANGED <<catalogVars, now, server, pc, args, ret, served, engineVars, serviceVars,
                 latest>>

ModalInit ==
  /\ Constructed(1)
  /\ ServiceIdle
  /\ ModalIdle
  /\ args = [c \in {1} |-> LoadCall]
  /\ server = <<>>
  /\ storage = Absent
  /\ storageFull = FALSE

ModalNext ==
  \E s \in 1..MaxShows :
    \/ ShowCall(s)
    \/ ShowProduct(s)
    \/ ShowSkus(s)
    \/ ShowCatch(s)

ModalSpec == ModalInit /\ [][ModalNext]_vars

(***************************************************************************)
(* The claims                                                              *)
(***************************************************************************)
InFlight == { c \in DOMAIN pc : pc[c] \in {"fetch", "json"} }

Waiting == { c \in DOMAIN pc : pc[c] = "poll" }

Done(c) == pc[c] = "done"

NoDuplicates(s) == \A i, j \in 1..Len(s) : i # j => s[i] # s[j]

\* the item of a snapshot with the handle, as a set (empty when there is none)
ItemsOf(snap, h) == { snap[i] : i \in { j \in 1..Len(snap) : snap[j].handle = h } }

\* the handles a response lists as available
StockedIn(response) ==
  { response.products[i].handle :
      i \in { j \in 1..Len(response.products) : response.products[j].available } }

\* the call took the backfill path: anchor found, fewer than RAIL_SIZE scored
Backfilled(c) ==
  /\ Done(c)
  /\ findByHandle(snapshot[c], args[c].anchorHandle) # 0
  /\ Len(recommended[c]) < RAIL_SIZE

\* C1: on one ProductCatalog, whatever load() calls are made while a catalog
\* fetch is in flight, no second fetch is issued: at most one catalog fetch
\* is outstanding in every reachable state.
C1_OneFetchOutstanding == Cardinality(InFlight) <= 1

\* C1's case: a fetch in flight and two more load() calls made meanwhile
C1_Witness == Cardinality(InFlight) = 1 /\ Cardinality(Waiting) >= 2

\* C2: a load() call that waits for a load in flight eventually resolves,
\* whether the fetch in flight succeeds or fails.
C2_WaitersResolve ==
  \A c \in 1..MaxCallers : (pc[c] = "poll") ~> (pc[c] = "returned")

\* C3: a load() call on a Ready catalog is not answered from the snapshot in
\* memory once more than the expiry window has passed since its capture.
C3_ReadyExpires == served.how = "memory" => served.age <= CACHE_DURATION

\* C4 as claimed: load() adopts the persisted entry exactly when it is called
\* strictly before T + TTL; at T + TTL it already goes to the network.
C4_AdoptedBeforeTTL ==
  /\ served.how = "cache" => served.age < CACHE_DURATION
  /\ served.how = "network" /\ served.age # NoAge => served.age >= CACHE_DURATION

\* C4, amended: a load() call that consults the persisted entry captured at
\* T adopts it exactly when it is called at T + TTL or before; strictly
\* after T + TTL it drops the entry and goes to the network.
C4_AdoptedUpToTTL ==
  /\ served.how = "cache" => served.age <= CACHE_DURATION
  /\ served.how = "network" /\ served.age # NoAge => served.age > CACHE_DURATION

\* C4's case: an entry adopted at exactly T + TTL
C4_Witness ==
  /\ served.how = "cache"
  /\ served.age = CACHE_DURATION
  /\ loaded
  /\ products = storage.products

\* C5: the list getRecommendations returns never contains the anchor handle.
C5_AnchorExcluded ==
  \A c \in DOMAIN pc : Done(c) => args[c].anchorHandle \notin SetOf(result[c])

\* C6 as claimed: every returned handle, scored or appended from the
\* bestsellers, is an item the snapshot marks available.
C6_AvailableInSnapshot ==
  \A c \in DOMAIN pc :
    Done(c) =>
      \A h \in SetOf(result[c]) : \E p \in ItemsOf(snapshot[c], h) : p.available

\* C6, amended: every scored handle is an item the snapshot marks available,
\* and every handle after the scored ones is one the bestseller response
\* marks available (the snapshot may lack it or mark it unavailable).
C6_AvailableAtSource ==
  \A c \in DOMAIN pc :
    Done(c) =>
      \A i \in 1..Len(result[c]) :
        IF i <= Len(recommended[c])
          THEN \E p \in ItemsOf(snapshot[c], result[c][i]) : p.available
          ELSE result[c][i] \in StockedIn(bestsellers[c])

\* C6's case: a list with scored handles and an appended bestseller, from a
\* snapshot that holds an unavailable item the anchor's tags match
C6_Witness ==
  \E c \in DOMAIN pc :
    /\ Done(c)
    /\ Len(recommended[c]) > 0
    /\ Len(result[c]) > Len(recommended[c])
    /\ \E i \in 1..Len(snapshot[c]) :
         /\ ~snapshot[c][i].available
         /\ snapshot[c][i].handle # args[c].anchorHandle
         /\ scoreProduct(snapshot[c][i].parsedTags,
                         snapshot[c][findByHandle(snapshot[c], args[c].anchorHandle)].parsedTags,
                         args[c].mode) > 0

\* C7: the list getRecommendations returns never has more than RAIL_SIZE
\* handles.
C7_AtMostRailSize == \A c \in DOMAIN pc : Done(c) => Len(result[c]) <= RAIL_SIZE

\* C7's case: a full list cut from a bestseller response with more available
\* products than asked for
C7_Witness ==
  \E c \in DOMAIN pc :
    /\ Done(c)
    /\ Len(result[c]) = RAIL_SIZE
    /\ Cardinality(StockedIn(bestsellers[c])) > RAIL_SIZE

\* C8: in a returned list, no interest value is carried by more than
\* max_per_interest of the returned items.
C8_InterestCap ==
  \A c \in DOMAIN pc :
    Done(c) =>
      \A k \in 1..Len(snapshot[c]) :
        \A v \in SetOf(snapshot[c][k].parsedTags.interest) :
          Cardinality({ i \in 1..Len(result[c]) :
                          \E p \in ItemsOf(snapshot[c], result[c][i]) :
                            v \in SetOf(p.parsedTags.interest) })
            <= max_per_interest

\* C9: when fewer than RAIL_SIZE handles were scored, the returned list is
\* the scored handles followed by handles of the bestseller response, and no
\* handle is in it twice.
C9_BackfillNoDuplicates ==
  \A c \in DOMAIN pc :
    Backfilled(c) =>
      /\ NoDuplicates(result[c])
      /\ SubSeq(result[c], 1, Len(recommended[c])) = recommended[c]
      /\ \A i \in (Len(recommended[c]) + 1)..Len(result[c]) :
           result[c][i] \in StockedIn(bestsellers[c])

\* C9's case: a backfilled tail from a response that also lists a scored
\* handle
C9_Witness ==
  \E c \in DOMAIN pc :
    /\ Backfilled(c)
    /\ Len(result[c]) > Len(recommended[c])
    /\ SetOf(recommended[c]) \cap StockedIn(bestsellers[c]) # {}

\* both calls of the two-run specification are done and read the same
\* snapshot (their anchor and mode are the same from the start)
SameRuns == Done(1) /\ Done(2) /\ snapshot[1] = snapshot[2] /\ args[1] = args[2]

OnlyCategory(tags, cat) == [k \in Categories |-> IF k = cat THEN tags[k] ELSE <<>>]

\* C11: for every anchor/candidate pair of the catalog a call is about to
\* score (the load has returned), the score in 'interest'
\* mode is 3 times the term the interest category contributes in 'similar'
\* mode, which is Jaccard(interest) * 3, and the score in 'occasion' mode is
\* 3 times the occasion term of 'similar' mode, which is Jaccard(occasion) * 2
\* (scores count 1 / (2 * JaccardUnit), a Jaccard similarity 1 / JaccardUnit).
C11_ModeTriples ==
  (\E c \in DOMAIN pc : pc[c] = "returned" /\ args[c].op = "recs") =>
    \A i, j \in 1..Len(products) :
      LET a == products[i].parsedTags
          p == products[j].parsedTags
      IN  /\ scoreProduct(p, a, "interest")
               = 3 * scoreProduct(OnlyCategory(p, "interest"),
                                  OnlyCategory(a, "interest"), "similar")
          /\ scoreProduct(OnlyCategory(p, "interest"), OnlyCategory(a, "interest"),
                          "similar")
               = jaccardSimilarity(p.interest, a.interest) * 2 * 3
          /\ scoreProduct(p, a, "occasion")
               = 3 * scoreProduct(OnlyCategory(p, "occasion"),
                                  OnlyCategory(a, "occasion"), "similar")
          /\ scoreProduct(OnlyCategory(p, "occasion"), OnlyCategory(a, "occasion"),
                          "similar")
               = jaccardSimilarity(p.occasion, a.occasion) * 2 * 2

\* C11's case: a call in 'interest' mode has returned a candidate whose
\* interest values overlap the anchor's in part, and that has other tags
C11_Witness ==
  \E c \in DOMAIN pc :
    /\ Done(c)
    /\ args[c].mode = "interest"
    /\ findByHandle(snapshot[c], args[c].anchorHandle) # 0
    /\ \E h \in SetOf(recommended[c]) :
         LET a == snapshot[c][findByHandle(snapshot[c], args[c].anchorHandle)].parsedTags
             p == snapshot[c][findByHandle(snapshot[c], h)].parsedTags
             jaccard == jaccardSimilarity(p.interest, a.interest)
         IN  /\ 0 < jaccard
             /\ jaccard < JaccardUnit
             /\ p.occasion # <<>>
             /\ a.occasion # <<>>

\* C12: when the catalog fetch fails, load() resolves to an empty sequence
\* and the catalog is Empty again (neither loading nor loaded), with no
\* usable persisted entry, so that a later load() fetches anew.
C12_FailureRecovers ==
  [][\A c \in 1..MaxCallers :
       LoadFail(c) =>
         /\ pc'[c] = "returned"
         /\ ret'[c] = <<>>
         /\ ~loading'
         /\ ~loaded'
         /\ \A t \in TimePoints : t >= now' => ~loadFromCache(storage', t).hit]_vars

\* C12's case: a load() has failed and returned, and a later load() of
\* another caller has issued a new fetch
C12_Witness ==
  /\ ~loaded
  /\ \E c, d \in 1..MaxCallers :
       /\ pc[c] = "returned"
       /\ ret[c] = <<>>
       /\ pc[d] = "fetch"

\* the handles of the products a listing marks available, in its order
RECURSIVE AvailableHandles(_)
AvailableHandles(listing) ==
  IF listing = <<>> THEN <<>>
  ELSE IF Head(listing).available
    THEN <<Head(listing).handle>> \o AvailableHandles(Tail(listing))
  ELSE AvailableHandles(Tail(listing))

\* the anchor of the call is not in the snapshot the call read
AnchorMissing(c) ==
  \A i \in 1..Len(snapshot[c]) : snapshot[c][i].handle # args[c].anchorHandle

\* C13: when the anchor handle is not in the loaded catalog, the call scores
\* nothing and returns exactly the available handles of the bestseller
\* response, in its order, cut to RAIL_SIZE (none when the query fails).
C13_FallbackOnly ==
  \A c \in DOMAIN pc :
    Done(c) /\ AnchorMissing(c) =>
      /\ recommended[c] = <<>>
      /\ LET handles == AvailableHandles(bestsellers[c].products)
         IN  result[c] = SubSeq(handles, 1, IF Len(handles) > RAIL_SIZE THEN RAIL_SIZE
                                            ELSE Len(handles))

\* C13's case: the anchor is missing from a catalog that has candidates, and
\* the bestseller response lists a sold-out product and more than RAIL_SIZE
\* available ones
C13_Witness ==
  \E c \in DOMAIN pc :
    /\ Done(c)
    /\ AnchorMissing(c)
    /\ \E i \in 1..Len(snapshot[c]) : snapshot[c][i].available
    /\ \E i \in 1..Len(bestsellers[c].products) : ~bestsellers[c].products[i].available
    /\ Cardinality(StockedIn(bestsellers[c])) > RAIL_SIZE
    /\ Len(result[c]) = RAIL_SIZE

\* C14: when the bestseller query of a call fails, the call returns exactly
\* the scored and diversified handles it had (none on the anchor-not-found
\* path), also when they are fewer than RAIL_SIZE.
C14_FailedQueryKeepsScored ==
  \A c \in DOMAIN pc :
    Done(c) /\ ~bestsellers[c].ok => result[c] = recommended[c]

\* C14's case: a call with some but fewer than RAIL_SIZE scored handles,
\* whose bestseller query failed
C14_Witness ==
  \E c \in DOMAIN pc :
    /\ Backfilled(c)
    /\ ~bestsellers[c].ok
    /\ Len(recommended[c]) > 0
    /\ Len(result[c]) < RAIL_SIZE

\* the score the call of c gives the product with handle h of its snapshot
ScoreIn(c, h) ==
  LET snap == snapshot[c]
      anchorTags == snap[findByHandle(snap, args[c].anchorHandle)].parsedTags
  IN  scoreProduct(snap[findByHandle(snap, h)].parsedTags, anchorTags, args[c].mode)

\* C15: the scored part of a returned list is in descending score order, and
\* of two items with the same score the one that comes first in the catalog
\* snapshot comes first.
C15_DescendingStable ==
  \A c \in DOMAIN pc :
    Done(c) /\ ~AnchorMissing(c) =>
      /\ Len(recommended[c]) <= Len(result[c])
      /\ \A i, j \in 1..Len(recommended[c]) :
           i < j =>
             /\ ScoreIn(c, result[c][i]) >= ScoreIn(c, result[c][j])
             /\ ScoreIn(c, result[c][i]) = ScoreIn(c, result[c][j])
                  => findByHandle(snapshot[c], result[c][i])
                       < findByHandle(snapshot[c], result[c][j])

\* C15's case: a scored part with two items of one score, and with an item
\* ahead of one that the catalog lists before it
C15_Witness ==
  \E c \in DOMAIN pc :
    /\ Done(c)
    /\ ~AnchorMissing(c)
    /\ \E i, j \in 1..Len(recommended[c]) :
         i < j /\ ScoreIn(c, result[c][i]) = ScoreIn(c, result[c][j])
    /\ \E i, j \in 1..Len(recommended[c]) :
         /\ i < j
         /\ ScoreIn(c, result[c][i]) > ScoreIn(c, result[c][j])
         /\ findByHandle(snapshot[c], result[c][i]) > findByHandle(snapshot[c], result[c][j])

\* the call of c is the example's: getRecommendations("A", "similar") on the
\* catalog A, B, C, D (handles 1 to 4), with nothing from the bestsellers
ExampleRun(c) ==
  /\ Done(c)
  /\ snapshot[c] = toProducts(ExampleListing)
  /\ args[c].anchorHandle = 1
  /\ args[c].mode = "similar"
  /\ AvailableHandles(bestsellers[c].products) = <<>>

\* C16 as claimed: the example returns the order B, C, D, D scoring lower
\* than C.
C16_OrderBCD ==
  \A c \in DOMAIN pc :
    ExampleRun(c) => result[c] = <<2, 3, 4>> /\ ScoreIn(c, 4) < ScoreIn(c, 3)

\* C16, amended: the example returns the order B, D, C: D matches the
\* anchor's interest (weight 3) and scores higher than C, which matches its
\* occasion (weight 2); D's style does not match at all.
C16_OrderBDC ==
  \A c \in DOMAIN pc :
    ExampleRun(c) =>
      /\ result[c] = <<2, 4, 3>>
      /\ ScoreIn(c, 2) = (3 + 2) * 2 * JaccardUnit
      /\ ScoreIn(c, 4) = 3 * 2 * JaccardUnit
      /\ ScoreIn(c, 3) = 2 * 2 * JaccardUnit

\* C16's case: the example's call has returned three handles
C16_Witness ==
  \E c \in DOMAIN pc : ExampleRun(c) /\ Len(result[c]) = 3 /\ recommended[c] = result[c]

\* C17: a load() call on an Empty catalog (neither loaded nor loading) that
\* finds a persisted entry of age at most CACHE_DURATION adopts the entry's
\* products as the snapshot, leaves the catalog Ready and returns them, and
\* no catalog fetch is issued.
C17_AdoptsWithoutFetch ==
  [][\A c \in 1..MaxCallers :
       ( /\ pc[c] = "idle"
         /\ pc'[c] # "idle"
         /\ ~loaded
         /\ ~loading
         /\ storage.text = "json"
         /\ now - storage.timestamp <= CACHE_DURATION )
       => /\ loaded'
          /\ ~loading'
          /\ products' = storage.products
          /\ pc'[c] = "returned"
          /\ ret'[c] = storage.products
          /\ storage' = storage
          /\ InFlight' = {}]_vars

\* C17's case: a caller got the products of an entry younger than the expiry
\* window, and no fetch is out
C17_Witness ==
  /\ served.how = "cache"
  /\ served.age < CACHE_DURATION
  /\ loaded
  /\ InFlight = {}
  /\ Len(products) > 0
  /\ storage.text = "json"
  /\ \E c \in 1..MaxCallers : pc[c] = "returned" /\ ret[c] = storage.products

\* the persisted entry is missing or does not parse
Unusable(item) == item.text \in {"absent", "garbage"}

\* a load() call of c on an Empty catalog that finds such an entry goes on to
\* the network fetch, leaving the entry alone
MissFallsThrough(c) ==
  ( /\ pc[c] = "idle"
    /\ pc'[c] # "idle"
    /\ ~loaded
    /\ ~loading
    /\ Unusable(storage) )
  => /\ pc'[c] = "fetch"
     /\ loading'
     /\ storage' = storage

\* C18 as claimed: a missing or malformed entry is a cache miss, load() goes
\* on to the fetch, and a successful fetch overwrites the entry.
C18_MissThenOverwritten ==
  [][\A c \in 1..MaxCallers :
       /\ MissFallsThrough(c)
       /\ JsonOk(c) /\ Unusable(storage) =>
            storage' = JSONstringify([timestamp |-> now, products |-> products'])]_vars

\* C18, amended: a missing or malformed entry is a cache miss and load() goes
\* on to the fetch; a successful fetch resolves to the fetched products and
\* overwrites the entry, unless sessionStorage.setItem throws: then the
\* entry stays as it was, missing or malformed.
C18_MissThenOverwrittenIfStored ==
  [][\A c \in 1..MaxCallers :
       /\ MissFallsThrough(c)
       /\ JsonOk(c) /\ Unusable(storage) =>
            /\ loaded'
            /\ ret'[c] = products'
            /\ storage' = IF storageFull THEN storage
                          ELSE JSONstringify([timestamp |-> now, products |-> products'])]_vars

\* C18's case: a load() that found no usable entry has fetched, and the entry
\* now holds the fetched snapshot
C18_Witness ==
  /\ loaded
  /\ served.how = "network"
  /\ served.age = NoAge
  /\ Len(products) > 0
  /\ storage = JSONstringify([timestamp |-> capturedAt, products |-> products])

\* C19: whatever fetchProduct calls are made (hits, misses, failed fetches,
\* calls that overlap while their fetches are out), productCache never holds
\* more than MAX_CACHE_SIZE entries.
C19_CacheBounded == Len(productCache) <= MAX_CACHE_SIZE

\* C19's case: the cache is full after an eviction, and two calls for
\* handles it does not hold have their bodies arriving
C19_Witness ==
  /\ Len(productCache) = MAX_CACHE_SIZE
  /\ ~mapHas(productCache, 1)
  /\ \A k \in 1..MaxClients :
       calls[k].at = "json" /\ ~mapHas(productCache, calls[k].handle)
  /\ \E j, k \in 1..MaxClients : calls[j].handle # calls[k].handle

\* C20: the cache evicts in least-recently-used order.  A hit makes its
\* handle the most recently used one (the last key of the Map), and when a
\* new handle is put into a full cache the one entry removed is the handle
\* whose last use, insert or hit, is the oldest.
C20_LeastRecentlyUsed ==
  [][\A k \in 1..MaxClients :
       /\ FetchHit(k) =>
            productCache'[Len(productCache')] = recency'[Len(recency')]
       /\ ( /\ FetchStore(k)
            /\ IsFull(productCache)
            /\ ~mapHas(productCache, calls[k].handle) )
          => /\ mapHas(productCache', calls[k].handle)
             /\ { h \in SetOf(productCache) : ~mapHas(productCache', h) }
                  = {Head(recency)}]_vars

\* the scored candidates of the call of c in rank order, as diversify gets them
Ranked(c) ==
  LET snap == snapshot[c]
      anchorTags == snap[findByHandle(snap, args[c].anchorHandle)].parsedTags
  IN  scoreAll(snap, args[c].anchorHandle, anchorTags, args[c].mode)

\* the handles of scored items
HandlesOf(items) == { items[k].product.handle : k \in 1..Len(items) }

\* how often the candidates ranked before the i-th one that were kept carry
\* the value v in the category
CountBefore(ranked, kept, i, cat, v) ==
  LET ahead == { j \in 1..(i - 1) : ranked[j].product.handle \in kept }
  IN  Cardinality({ x \in ahead \X (1..MaxValues) :
                      /\ x[2] <= Len(ranked[x[1]].product.parsedTags[cat])
                      /\ ranked[x[1]].product.parsedTags[cat][x[2]] = v })

\* the values of the i-th candidate in the category that have reached max
Capped(ranked, kept, i, cat, max) ==
  { v \in SetOf(ranked[i].product.parsedTags[cat]) :
      CountBefore(ranked, kept, i, cat, v) >= max }

\* C21 as claimed: a candidate is skipped only if every one of its interest
\* values and every one of its style values has reached the cap of 2; one
\* with an interest value or a style value below the cap is accepted.
C21_SkippedOnlyIfEveryCapped ==
  \A c \in DOMAIN pc :
    Done(c) /\ ~AnchorMissing(c) =>
      LET ranked == Ranked(c)
          kept == HandlesOf(diversify(ranked))
      IN  \A i \in 1..Len(ranked) :
            LET tags == ranked[i].product.parsedTags
            IN  ranked[i].product.handle \notin kept =>
                  /\ Capped(ranked, kept, i, "interest", max_per_interest)
                       = SetOf(tags.interest)
                  /\ Capped(ranked, kept, i, "style", max_per_style) = SetOf(tags.style)

\* C21, amended: a candidate is skipped exactly when at least one of its
\* interest values has reached the cap of 2 among the candidates kept before
\* it AND at least one of its style values has; a candidate without interest
\* values or without style values is never skipped, and one with a value
\* below the cap is skipped all the same when another of its values of that
\* category has reached it.  The scored handles are the first RAIL_SIZE kept.
C21_SkippedIfSomeCapped ==
  \A c \in DOMAIN pc :
    Done(c) /\ ~AnchorMissing(c) =>
      LET ranked == Ranked(c)
          diversified == diversify(ranked)
          kept == HandlesOf(diversified)
      IN  /\ \A i \in 1..Len(ranked) :
               ranked[i].product.handle \notin kept
                 <=> /\ Capped(ranked, kept, i, "interest", max_per_interest) # {}
                     /\ Capped(ranked, kept, i, "style", max_per_style) # {}
          /\ Len(recommended[c])
               = IF Len(diversified) < RAIL_SIZE THEN Len(diversified) ELSE RAIL_SIZE
          /\ \A k \in 1..Len(recommended[c]) :
               recommended[c][k] = diversified[k].product.handle

\* C21's case: of the catalog in which frogs and cute reach their caps with
\* handles 2 and 3, handle 6 (frogs, cute) and handle 4 (frogs and dogs,
\* cute) are skipped, and handle 5 (cute, no interest) is kept
C21_Witness ==
  \E c \in DOMAIN pc :
    /\ Done(c)
    /\ snapshot[c] = toProducts(CappedListing)
    /\ args[c].anchorHandle = 1
    /\ args[c].mode = "similar"
    /\ recommended[c] = <<2, 3, 5>>
    /\ \E i \in 1..Len(Ranked(c)) :
         /\ Ranked(c)[i].product.handle = 4
         /\ Capped(Ranked(c), {2, 3, 5}, i, "interest", max_per_interest) = {<<"frogs">>}
         /\ Capped(Ranked(c), {2, 3, 5}, i, "style", max_per_style) = {<<"cute">>}

\* a load has returned to a getRecommendations call, which scores next
AboutToScore == \E c \in DOMAIN pc : pc[c] = "returned" /\ args[c].op = "recs"

\* intersection size over union size of two value sets, in 1 / JaccardUnit,
\* and 0 when either is empty
SetJaccard(A, B) ==
  IF A = {} \/ B = {} THEN 0
  ELSE (Cardinality({ v \in A : v \in B }) * JaccardUnit)
         \div Cardinality({ v \in A \cup B : TRUE })

\* the weights interest 3, occasion 2, recipient 2, style 1, humour 0.5, in halves
HalfWeights ==
  [interest |-> 6, occasion |-> 4, recipient |-> 4, style |-> 2, humour |-> 1]

\* the tags with every value given twice
Twice(tags) == [k \in Categories |-> tags[k] \o tags[k]]

\* C22: for every anchor/candidate pair of the catalog a call is about to
\* score, the 'similar' score is the sum over the five categories of weight
\* times the Jaccard similarity of the two value sets (0 when either is
\* empty), with weights 3, 2, 2, 1 and 0.5; giving every value of the
\* candidate or of the anchor twice does not change the score (scores count
\* 1 / (2 * JaccardUnit)).
C22_WeightedJaccardSum ==
  AboutToScore =>
    \A i, j \in 1..Len(products) :
      LET a == products[i].parsedTags
          p == products[j].parsedTags
          score == scoreProduct(p, a, "similar")
      IN  /\ score = HalfWeights.interest * SetJaccard(SetOf(a.interest), SetOf(p.interest))
                     + HalfWeights.occasion * SetJaccard(SetOf(a.occasion), SetOf(p.occasion))
                     + HalfWeights.recipient * SetJaccard(SetOf(a.recipient), SetOf(p.recipient))
                     + HalfWeights.style * SetJaccard(SetOf(a.style), SetOf(p.style))
                     + HalfWeights.humour * SetJaccard(SetOf(a.humour), SetOf(p.humour))
          /\ scoreProduct(Twice(p), a, "similar") = score
          /\ scoreProduct(p, Twice(a), "similar") = score

\* C22's case: a 'similar' call whose anchor has one interest has returned a
\* candidate that carries that interest twice and matches in another
\* category too, and a candidate that matches the anchor's interest in part
C22_Witness ==
  \E c \in DOMAIN pc :
    /\ Done(c)
    /\ ~AnchorMissing(c)
    /\ args[c].mode = "similar"
    /\ \E h, g \in SetOf(recommended[c]) :
         LET snap == snapshot[c]
             a == snap[findByHandle(snap, args[c].anchorHandle)].parsedTags
             p == snap[findByHandle(snap, h)].parsedTags
             q == snap[findByHandle(snap, g)].parsedTags
         IN  /\ Len(p.interest) > Cardinality(SetOf(p.interest))
             /\ SetOf(p.interest) = SetOf(a.interest)
             /\ SetOf(p.humour) = SetOf(a.humour)
             /\ a.humour # <<>>
             /\ ScoreIn(c, h) = (HalfWeights.interest + HalfWeights.humour) * JaccardUnit
             /\ 0 < SetJaccard(SetOf(a.interest), SetOf(q.interest))
             /\ SetJaccard(SetOf(a.interest), SetOf(q.interest)) < JaccardUnit


\* C23: for every catalog a call is about to score, two candidates that
\* agree on their interest values get the same 'interest' score against an
\* anchor, and a candidate gets the same 'interest' score against two
\* anchors that agree on their interest values, whatever the other tags
\* are; likewise for 'occasion' mode and the occasion values.
C23_OnlyTheModeCategory ==
  AboutToScore =>
    \A i, j, k \in 1..Len(products) :
      LET a == products[i].parsedTags
          p == products[j].parsedTags
          q == products[k].parsedTags
      IN  /\ p.interest = q.interest
               => /\ scoreProduct(p, a, "interest") = scoreProduct(q, a, "interest")
                  /\ scoreProduct(a, p, "interest") = scoreProduct(a, q, "interest")
          /\ p.occasion = q.occasion
               => /\ scoreProduct(p, a, "occasion") = scoreProduct(q, a, "occasion")
                  /\ scoreProduct(a, p, "occasion") = scoreProduct(a, q, "occasion")

\* C23's case: a call in 'interest' mode has returned two candidates with
\* the same interest values that differ in their other tags, and that
\* 'similar' mode would score differently; a call in 'occasion' mode likewise
C23_Witness ==
  \E c \in DOMAIN pc :
    /\ Done(c)
    /\ ~AnchorMissing(c)
    /\ \E cat \in {"interest", "occasion"} :
         /\ args[c].mode = cat
         /\ \E h, g \in SetOf(recommended[c]) :
              LET snap == snapshot[c]
                  a == snap[findByHandle(snap, args[c].anchorHandle)].parsedTags
                  p == snap[findByHandle(snap, h)].parsedTags
                  q == snap[findByHandle(snap, g)].parsedTags
              IN  /\ p[cat] = q[cat]
                  /\ p # q
                  /\ scoreProduct(p, a, "similar") # scoreProduct(q, a, "similar")
                  /\ ScoreIn(c, h) = ScoreIn(c, g)


\* C24: every handle the scoring stage of a call selects has a score above
\* 0 against the anchor; a catalog item of score 0 or less that is in the
\* returned list stands behind the scored handles, where the bestseller
\* backfill puts its entries.
C24_ScoredArePositive ==
  \A c \in DOMAIN pc :
    pc[c] \in {"backfill", "done"} /\ findByHandle(snapshot[c], args[c].anchorHandle) # 0 =>
      /\ \A k \in 1..Len(recommended[c]) : ScoreIn(c, recommended[c][k]) > 0
      /\ Done(c) =>
           \A k \in 1..Len(result[c]) :
             /\ findByHandle(snapshot[c], result[c][k]) # 0
             /\ ScoreIn(c, result[c][k]) <= 0
             => /\ k > Len(recommended[c])
                /\ result[c][k] \in StockedIn(bestsellers[c])

\* C24's case: an available catalog item that shares nothing with the anchor
\* is returned behind a scored handle, as a bestseller
C24_Witness ==
  \E c \in DOMAIN pc :
    /\ Done(c)
    /\ findByHandle(snapshot[c], args[c].anchorHandle) # 0
    /\ Len(recommended[c]) > 0
    /\ \E k \in 1..Len(result[c]) :
         LET at == findByHandle(snapshot[c], result[c][k])
         IN  /\ at # 0
             /\ snapshot[c][at].available
             /\ ScoreIn(c, result[c][k]) = 0
             /\ k > Len(recommended[c])


\* C25: a call asks for the bestseller backfill only with fewer than
\* RAIL_SIZE scored handles, and asks for as many as are short; a call with
\* RAIL_SIZE scored handles asks for nothing and returns them.  The returned
\* list begins with the scored handles, unchanged and in their order, and
\* holds after them at most as many handles as were short, each one an
\* available handle among the first that many of the bestseller response.
C25_BackfillTheShortfall ==
  \A c \in DOMAIN pc :
    LET short == RAIL_SIZE - Len(recommended[c])
    IN  /\ pc[c] = "backfill" => short > 0 /\ asked[c] = short
        /\ Done(c) /\ ~AnchorMissing(c) =>
             /\ Len(recommended[c]) <= Len(result[c])
             /\ SubSeq(result[c], 1, Len(recommended[c])) = recommended[c]
             /\ Len(result[c]) - Len(recommended[c]) <= (IF short > 0 THEN short ELSE 0)
             /\ short <= 0 => asked[c] = 0 /\ bestsellers[c] = NoResponse
             /\ short > 0 =>
                  /\ asked[c] = short
                  /\ \A k \in (Len(recommended[c]) + 1)..Len(result[c]) :
                       result[c][k] \in SetOf(slice(AvailableHandles(bestsellers[c].products),
                                                    short))

\* C25's case: a call with some scored handles, but fewer than RAIL_SIZE, has
\* returned them followed by as many bestsellers as were short, the response
\* offering more
C25_Witness ==
  \E c \in DOMAIN pc :
    /\ Done(c)
    /\ ~AnchorMissing(c)
    /\ Len(recommended[c]) > 0
    /\ Len(recommended[c]) < RAIL_SIZE
    /\ Len(result[c]) = RAIL_SIZE
    /\ asked[c] = RAIL_SIZE - Len(recommended[c])
    /\ Len(AvailableHandles(bestsellers[c].products)) > asked[c]


\* the list holds one item for every product of the listing, in its order,
\* each with the product's handle, tags and stock and with parsed tags
IsSnapshotOf(prods, listing) ==
  /\ Len(prods) = Len(listing)
  /\ \A i \in 1..Len(listing) :
       /\ prods[i].handle = listing[i].handle
       /\ prods[i].tags = listing[i].tags
       /\ prods[i].available = listing[i].available
       /\ DOMAIN prods[i].parsedTags = Categories

\* C26: a step changes the catalog's product list only by completing a
\* load, and the step that completes a load leaves a complete snapshot in
\* place: of the listing the response carries, or the list of the persisted
\* entry.  A step that leaves a fetch in flight, and the failure of a load,
\* leave the list as it was.
C26_ReplacedAsAWhole ==
  [][/\ products' # products => ~loaded /\ loaded'
     /\ ~loaded /\ loaded' =>
          /\ ~loading'
          /\ \/ InFlight # {} /\ IsSnapshotOf(products', server)
             \/ /\ InFlight = {}
                /\ storage.text = "json"
                /\ products' = storage.products
     /\ InFlight # {} /\ ~loaded' => products' = products
     /\ \A c \in 1..MaxCallers : LoadFail(c) => products' = products /\ ~loaded'
    ]_vars

\* C26's case: a load has failed and returned nothing, and a later load has
\* put the whole listing in place
C26_Witness ==
  /\ loaded
  /\ products # <<>>
  /\ IsSnapshotOf(products, server)
  /\ \E c, d \in 1..MaxCallers :
       /\ pc[c] = "returned"
       /\ ret[c] = <<>>
       /\ pc[d] = "returned"
       /\ ret[d] = products
       /\ served.how = "network"


\* the tag in lower case and without the blanks around it
Normal(tag) ==
  LET inked == { i \in 1..Len(tag) : tag[i] # " " }
  IN  IF inked = {} THEN <<>>
      ELSE LET first == CHOOSE i \in inked : \A j \in inked : i <= j
               last == CHOOSE i \in inked : \A j \in inked : j <= i
           IN  [i \in 1..(last - first + 1) |-> LowerToken(tag[first + i - 1])]

\* the tag has the form cat:value, with one colon
IsTagOf(tag, cat) ==
  LET n == Normal(tag)
  IN  /\ Len(n) >= 2
      /\ n[1] = cat
      /\ { i \in 1..Len(n) : n[i] = ":" } = {2}

\* the values the tags give the category, in the order of the tags
ValuesOf(tags, cat) ==
  LET given == SelectSeq(tags, LAMBDA tag : IsTagOf(tag, cat))
  IN  [i \in 1..Len(given) |-> SubSeq(Normal(given[i]), 3, Len(Normal(given[i])))]

\* C27: every item of the snapshot the catalog holds when a load hands it
\* to its caller, fetched or restored from the persisted entry (the catalog
\* keeps that snapshot from then on), has parsedTags = parseTags(tags), and
\* parsedTags holds under each of the five categories the lower-cased values
\* of the tags of the form category:value, in their order; a tag with
\* another category, without a colon or with more than one adds nothing.
C27_ParsedTagsOfTags ==
  AboutToScore =>
    \A item \in SetOf(products) :
      /\ item.parsedTags = parseTags(item.tags)
      /\ DOMAIN item.parsedTags = Categories
      /\ \A cat \in Categories : item.parsedTags[cat] = ValuesOf(item.tags, cat)

\* C27's case: the catalog holds a snapshot restored from the persisted
\* entry with an item whose tags give one interest twice (once in capitals
\* behind a blank) and of whose other tags only the humour is kept
C27_Witness ==
  /\ loaded
  /\ served.how = "cache"
  /\ \E i \in 1..Len(products) :
       /\ Len(products[i].tags) = 6
       /\ products[i].parsedTags
            = [EmptyTags EXCEPT !.interest = << <<"frogs">>, <<"frogs">> >>,
                                !.humour = << <<"dry">> >>]
  /\ \E c \in DOMAIN pc : Done(c) /\ snapshot[c] = products


\* every show() call made has run to its end
ShowsSettled == \A s \in 1..MaxShows : shows[s].at \in {"idle", "done", "failed"}

\* C28: once all show() calls have settled, the last of them with its
\* product fetched, the modal's productData and its rendered choice view are
\* those of the handle of the most recent show() call.
C28_BelongsToLatestShow ==
  /\ ShowsSettled
  /\ \E s \in 1..MaxShows :
       /\ shows[s].at = "done"
       /\ \A r \in (s + 1)..MaxShows : shows[r].at = "idle"
  => /\ modal.productData = latest
     /\ modal.body = [view |-> "choice", handle |-> latest]


\* C29: in every state between the steps of the callers the catalog is
\* Empty, Loading or Ready: loading and loaded are never both true, loading
\* is true exactly while a catalog fetch is outstanding, and a catalog that
\* is not Ready holds no products.
C29_EmptyLoadingReady ==
  /\ ~(loading /\ loaded)
  /\ loading <=> InFlight # {}
  /\ ~loaded => products = <<>>

\* C29's case: the catalog is Loading again after a load that failed, with
\* a second caller waiting
C29_Witness ==
  /\ loading
  /\ ~loaded
  /\ Cardinality(InFlight) = 1
  /\ Waiting # {}
  /\ \E c \in 1..MaxCallers : pc[c] = "returned" /\ ret[c] = <<>>


\* C30: a fetchProduct step removes a handle from the cache only when it is
\* the completion of a call whose handle the cache does not hold at that
\* moment, the cache holds MAX_CACHE_SIZE handles, and the call's handle is
\* put in; this also for calls for one handle that overlap.
C30_EvictsOnlyToInsert ==
  [][(\E h \in SetOf(productCache) : ~mapHas(productCache', h)) =>
       \E k \in 1..MaxClients :
         /\ FetchStore(k)
         /\ ~mapHas(productCache, calls[k].handle)
         /\ Len(productCache) = MAX_CACHE_SIZE
         /\ mapHas(productCache', calls[k].handle)]_vars

=============================================================================
